---- MODULE Spec2Model ----
(***************************************************************************)
(* Chat session lifecycle and cooperative cancellation of the streaming    *)
(* backend (src/src/core/chat.py) over the cache abstraction               *)
(* (src/src/cache.py).  One generate() coroutine runs per chat id; every   *)
(* await on the cache, every pull from a backend and every yield is one    *)
(* step, so halt requests interleave exactly where the event loop lets     *)
(* them.                                                                   *)
(*                                                                         *)
(* Spec      one generation with halts, consumer close and store failure   *)
(* SpecPair  two concurrent generations without retrieval, with halts      *)
(* SpecThink RAGService.remove_think on bounded texts                      *)
(* SpecCache LocalCache under set, delete and close                        *)
(* SpecApp   the application of src/src/main.py: startup, requests         *)
(* SpecLive  one generation with halts under fair scheduling               *)
(* SpecEvict one generation with halts over a cache that loses entries     *)
(***************************************************************************)
EXTENDS Integers, Sequences, FiniteSets, TLC

\* ---------------------------------------------------------------- bounds
\* longest fragment stream the generation backend delivers for an answer
MaxFrags == 3
\* longest fragment stream the generation backend delivers for a query rewrite
MaxRewrite == 2
\* halt calls per chat id that are told apart (later ones are still made)
MaxHalts == 2

\* ------------------------------------------------------- program constants
\* ChatStatus (schema.py)
ACTIVE == 1
COMPLETED == 0
TERMINATED == -1

\* chat ids a request may carry: the empty id and two sessions
ChatIds == {"", "s1", "s2"}
\* ids for which a generation is started (one per behaviour)
GenIds == {"", "s1"}
\* the workflow subclasses of ChatInterface
Variants == {"plain", "rag"}
\* the texts the generation backend streams, fragment by fragment: the
\* workflows never inspect a fragment, so streams differ only in how many
\* fragments arrive before the stream ends or raises (the text repeats when a
\* stream is longer than it)
AnswerText == <<"Hel", "lo ", "world">>
RewriteText == <<"<think>", "</think>", "query">>
\* the i-th fragment of a stream of text t
FragAt(t, i) == t[((i - 1) % Len(t)) + 1]

\* ------------------------------------------------------------ python values
\* an optional int: what Cache.get returns (None when the key is absent)
None == [some |-> FALSE, v |-> 0]
Some(x) == [some |-> TRUE, v |-> x]

\* str(x) for an optional int
PyStr(o) ==
  IF ~o.some THEN "None"
  ELSE IF o.v = 1 THEN "1"
  ELSE IF o.v = 0 THEN "0"
  ELSE IF o.v = -1 THEN "-1"
  ELSE "other"

VARIABLES
  store,      \* the cache: a dict from key to status value
  storeUp,    \* FALSE once the cache backend is unreachable (every call raises)
  pc,         \* per chat id: where its generate() coroutine stands
  variant,    \* per chat id: which chat_workflow runs
  out,        \* per chat id: the events yielded to the consumer so far
  rwS,        \* per chat id: fragments the backend delivered to query_rewrite
  ansS,       \* per chat id: fragments the backend delivered to the answer loop
  status,     \* per chat id: the local chat_status (last cache.get result)
  exiting,    \* per chat id: the consumer closed the stream (GeneratorExit pending)
  berr,       \* per chat id: stage in which a backend raised ("none" if none did)
  finRuns,    \* per chat id: how many times the finally block of generate ran
  haltRes,    \* per chat id: outcome of the last halt_chat call ("none" if none)
  nHalts,     \* per chat id: how many halt_chat calls were made (counted up to MaxHalts)
  hmark,      \* per chat id: where generate stood when the first halt landed
              \* inside the workflow body outside a poll-to-yield window
  finWrote,   \* per chat id: the finally block of generate wrote COMPLETED
  think,      \* the last direct call of RAGService.remove_think: its text and result
  app         \* the FastAPI application: its lifecycle, app.state.cache, requests served

vars == <<store, storeUp, pc, variant, out, rwS, ansS, status, exiting, berr,
          finRuns, haltRes, nHalts, hmark, finWrote, think, app>>

\* what the steps of generate and halt_chat leave alone (but for the
\* finalizer's write, which records itself in finWrote)
aux == <<finWrote, think, app>>

\* no direct call of remove_think was made
NoCall == [text |-> <<>>, result |-> <<>>, called |-> FALSE]

\* the services are driven directly, with a cache passed to their constructor
NoApp == [phase |-> "unused", cache |-> "none", served |-> <<>>, redis |-> "unused"]

NoMark == [pc |-> "none", n |-> 0]

\* ------------------------------------------------------------------ cache
\* a set that rebinds the dict instead of updating it
CacheSet_Reset(s, k, v) == [x \in {k} |-> v]

\* LocalCache.set / RedisCache.set: the dict with key k bound to v
CacheSet(s, k, v) == [x \in (DOMAIN s) \cup {k} |-> IF x = k THEN v ELSE s[x]]

\* LocalCache.get / RedisCache.get: the value, or None
CacheGet(s, k) == IF k \in DOMAIN s THEN Some(s[k]) ELSE None

\* a status write that marks every session the cache knows
set_chat_status_AllKeys(s, chat_id, st) == [x \in (DOMAIN s) \cup {chat_id} |-> st]

\* ChatInterface._set_chat_status
set_chat_status(s, chat_id, st) == CacheSet(s, chat_id, st)

\* ----------------------------------------------------------------- events
InitEv(c) == <<"Init", c>>
AnswerEv(f) == <<"Answer", f>>
RewriteEv(f) == <<"Query Rewrite", f>>
SearchEv == <<"Search", "attachment">>
EndEv(r) == <<"End", r>>

\* an End payload that reports TERMINATED whatever was read
from_status_AlwaysTerminated(o) == TERMINATED

\* EndResponse.from_status on an int (or numeric str) status
from_status(o) == o.v

Upd(f, c, v) == [f EXCEPT ![c] = v]

\* -------------------------------------------------------------- generate
Init ==
  /\ store = [x \in {} |-> 0]
  /\ storeUp = TRUE
  /\ \E g \in GenIds : pc = [c \in ChatIds |-> IF c = g THEN "start" ELSE "idle"]
  /\ \E v \in Variants : variant = [c \in ChatIds |-> v]
  /\ out = [c \in ChatIds |-> <<>>]
  /\ rwS = [c \in ChatIds |-> <<>>]
  /\ ansS = [c \in ChatIds |-> <<>>]
  /\ status = [c \in ChatIds |-> None]
  /\ exiting = [c \in ChatIds |-> FALSE]
  /\ berr = [c \in ChatIds |-> "none"]
  /\ finRuns = [c \in ChatIds |-> 0]
  /\ haltRes = [c \in ChatIds |-> "none"]
  /\ nHalts = [c \in ChatIds |-> 0]
  /\ hmark = [c \in ChatIds |-> NoMark]
  /\ finWrote = [c \in ChatIds |-> FALSE]
  /\ think = NoCall
  /\ app = NoApp

\* generate, lines 45-48: build the Init response, then write ACTIVE
Begin(c) ==
  /\ pc[c] = "start"
  /\ IF c # ""
     THEN IF storeUp
          THEN /\ store' = set_chat_status(store, c, ACTIVE)
               /\ pc' = Upd(pc, c, "emit_init")
          ELSE /\ pc' = Upd(pc, c, "raised")
               /\ UNCHANGED store
     ELSE /\ pc' = Upd(pc, c, "emit_init")
          /\ UNCHANGED store
  /\ UNCHANGED <<storeUp, variant, out, rwS, ansS, status, exiting, berr,
                 finRuns, haltRes, nHalts, hmark>>
  /\ UNCHANGED aux

\* generate, line 50: yield the Init event
EmitInit(c) ==
  /\ pc[c] = "emit_init"
  /\ out' = Upd(out, c, Append(out[c], InitEv(c)))
  /\ pc' = Upd(pc, c, "y_init")
  /\ UNCHANGED <<store, storeUp, variant, rwS, ansS, status, exiting, berr,
                 finRuns, haltRes, nHalts, hmark>>
  /\ UNCHANGED aux

\* pcs at which generate is suspended at a yield (the consumer holds the stream)
RewritePull(c) == variant[c] = "rag" /\ pc[c] \in {"y_init", "y_rw"}
AnswerPull(c) ==
  \/ variant[c] = "plain" /\ pc[c] \in {"y_init", "y_ans"}
  \/ variant[c] = "rag" /\ pc[c] \in {"y_search", "y_ans"}

\* the stage a backend call made at this point belongs to
StageOf(c) ==
  IF pc[c] = "search" THEN "search"
  ELSE IF RewritePull(c) THEN "rewrite" ELSE "answer"

\* a gate that stops only on TERMINATED
ShouldEmit_NotTerminated(st) == PyStr(st) # PyStr(Some(TERMINATED))

\* a gate that compares with the wrong member of ChatStatus
ShouldEmit_NotCompleted(st) == PyStr(st) # PyStr(Some(COMPLETED))

\* chat_workflow, lines 107/150/174: the gate on the polled status
ShouldEmit(st) == PyStr(st) = PyStr(Some(ACTIVE))

\* a finalizer that never writes
NeedsComplete_Never(st) == FALSE

\* a finalizer that writes COMPLETED whatever it read
NeedsComplete_Always(st) == TRUE

\* a finalizer whose test is inverted
NeedsComplete_Inverted(st) == PyStr(st) = PyStr(Some(TERMINATED))

\* generate, line 61: the finalizer's test on the status it read
NeedsComplete(st) == PyStr(st) # PyStr(Some(TERMINATED))

\* a loop that polls again until the status is ACTIVE (busy-wait)
AfterPoll_Wait(st, at) ==
  IF PyStr(st) = PyStr(Some(ACTIVE))
  THEN (IF at = "rw_poll" THEN "emit_rw" ELSE "emit_ans")
  ELSE at

\* a rewrite loop that leaves the whole workflow (return) where the code
\* leaves the loop (break)
AfterPoll_Return(st, at) ==
  IF PyStr(st) = PyStr(Some(ACTIVE))
  THEN (IF at = "rw_poll" THEN "emit_rw" ELSE "emit_ans")
  ELSE "fin_read"

\* a loop that skips the fragment (continue) where the code leaves (break)
AfterPoll_Continue(st, at) ==
  IF PyStr(st) = PyStr(Some(ACTIVE))
  THEN (IF at = "rw_poll" THEN "emit_rw" ELSE "emit_ans")
  ELSE (IF at = "rw_poll" THEN "y_rw" ELSE "y_ans")

\* chat_workflow, lines 105-111/148-155/172-178: where the loop goes after the
\* poll: on to the yield of the fragment, or (yield None; break) out of the
\* loop, which in the rewrite stage falls through to the retrieval
AfterPoll(st, at) ==
  IF ShouldEmit(st)
  THEN (IF at = "rw_poll" THEN "emit_rw" ELSE "emit_ans")
  ELSE (IF at = "rw_poll" THEN "search" ELSE "fin_read")

\* a loop that keeps yielding the first fragment
chunk_First(s) == s[1]

\* the loop variable chunk: the fragment the backend delivered last
chunk(s) == s[Len(s)]

\* a handler that logs the error and forgets the status
OnWorkflowError_NoWrite(s, c) == s

\* chat_workflow, lines 112-115/179-182: the handler of a backend error
OnWorkflowError(s, c) == CacheSet(s, c, TERMINATED)

\* a generate that leaves from inside its finally block (the End is never yielded)
AfterFinally_Return(c) == "closed"

\* where generate goes once its finally block is through: on to line 64, or out
\* of the coroutine when a GeneratorExit is pending
AfterFinally(c) == IF exiting[c] THEN "closed" ELSE "end_read"

\* chat_workflow, lines 98-99/138-139 and generate, lines 56-58: an empty chat
\* id makes the workflow raise ValueError, which generate's handler turns into
\* a TERMINATED write
WorkflowReject(c) ==
  /\ pc[c] = "y_init"
  /\ c = ""
  /\ IF storeUp
     THEN /\ store' = set_chat_status(store, c, TERMINATED)
          /\ pc' = Upd(pc, c, "fin_read")
     ELSE /\ pc' = Upd(pc, c, "raised")
          /\ UNCHANGED store
  /\ UNCHANGED <<storeUp, variant, out, rwS, ansS, status, exiting, berr,
                 finRuns, haltRes, nHalts, hmark>>
  /\ UNCHANGED aux

\* llm.generate_stream delivers the next fragment to the async for of
\* query_rewrite (line 148) or of the answer loop (lines 105/172)
BackendFragment(c) ==
  /\ c # ""
  /\ \/ /\ RewritePull(c)
        /\ Len(rwS[c]) < MaxRewrite
        /\ rwS' = Upd(rwS, c, Append(rwS[c], FragAt(RewriteText, Len(rwS[c]) + 1)))
        /\ pc' = Upd(pc, c, "rw_poll")
        /\ UNCHANGED ansS
     \/ /\ AnswerPull(c)
        /\ Len(ansS[c]) < MaxFrags
        /\ ansS' = Upd(ansS, c, Append(ansS[c], FragAt(AnswerText, Len(ansS[c]) + 1)))
        /\ pc' = Upd(pc, c, "poll")
        /\ UNCHANGED rwS
  /\ UNCHANGED <<store, storeUp, variant, out, status, exiting, berr,
                 finRuns, haltRes, nHalts, hmark>>
  /\ UNCHANGED aux

\* the backend's stream is exhausted: the rewrite loop falls through to
\* remove_think and search_relevant_docs (lines 157-160), the answer loop
\* ends the workflow and generate enters its finally block
BackendEnd(c) ==
  /\ c # ""
  /\ \/ /\ RewritePull(c)
        /\ pc' = Upd(pc, c, "search")
     \/ /\ AnswerPull(c)
        /\ pc' = Upd(pc, c, "fin_read")
  /\ UNCHANGED <<store, storeUp, variant, out, rwS, ansS, status, exiting,
                 berr, finRuns, haltRes, nHalts, hmark>>
  /\ UNCHANGED aux

\* a workflow with one handler per stage: after an error it goes on with the
\* next stage
AfterError_NextStage(stage) ==
  IF stage = "rewrite" THEN "search"
  ELSE IF stage = "search" THEN "y_search"
  ELSE "fin_read"

\* chat_workflow, lines 100-116/141-183: one try spans all stages, so after
\* the handler the workflow is over and generate enters its finally block
AfterError(stage) == "fin_read"

\* a backend call raises inside the workflow's try: lines 112-116/179-183
\* write TERMINATED and yield None, which generate drops (line 54)
BackendError(c) ==
  /\ c # ""
  /\ RewritePull(c) \/ AnswerPull(c) \/ pc[c] = "search"
  /\ berr' = Upd(berr, c, StageOf(c))
  /\ IF storeUp
     THEN /\ store' = OnWorkflowError(store, c)
          /\ pc' = Upd(pc, c, AfterError(StageOf(c)))
     ELSE /\ pc' = Upd(pc, c, "raised")
          /\ UNCHANGED store
  /\ UNCHANGED <<storeUp, variant, out, rwS, ansS, status, exiting,
                 finRuns, haltRes, nHalts, hmark>>
  /\ UNCHANGED aux

\* chat_workflow, lines 106-111/149-155/173-178: re-read the status after a
\* fragment arrived; go on to the yield, or yield None and break
Poll(c) ==
  /\ pc[c] \in {"rw_poll", "poll"}
  /\ IF storeUp
     THEN /\ status' = Upd(status, c, CacheGet(store, c))
          /\ pc' = Upd(pc, c, AfterPoll(CacheGet(store, c), pc[c]))
     ELSE /\ pc' = Upd(pc, c, "raised")
          /\ UNCHANGED status
  /\ UNCHANGED <<store, storeUp, variant, out, rwS, ansS, exiting, berr,
                 finRuns, haltRes, nHalts, hmark>>
  /\ UNCHANGED aux

\* a workflow that marks the session ACTIVE again with every fragment it
\* forwards (keep-alive)
Emit_KeepAlive(c) ==
  /\ pc[c] \in {"emit_rw", "emit_ans"}
  /\ IF pc[c] = "emit_rw"
     THEN /\ out' = Upd(out, c, Append(out[c], RewriteEv(chunk(rwS[c]))))
          /\ pc' = Upd(pc, c, "y_rw")
     ELSE /\ out' = Upd(out, c, Append(out[c], AnswerEv(chunk(ansS[c]))))
          /\ pc' = Upd(pc, c, "y_ans")
  /\ store' = IF storeUp THEN set_chat_status(store, c, ACTIVE) ELSE store
  /\ UNCHANGED <<storeUp, variant, rwS, ansS, status, exiting, berr,
                 finRuns, haltRes, nHalts, hmark>>
  /\ UNCHANGED aux

\* an answer loop pasted from the rewrite loop: it yields its fragments as
\* Query Rewrite events
Emit_AnswerAsRewrite(c) ==
  /\ pc[c] \in {"emit_rw", "emit_ans"}
  /\ IF pc[c] = "emit_rw"
     THEN /\ out' = Upd(out, c, Append(out[c], RewriteEv(chunk(rwS[c]))))
          /\ pc' = Upd(pc, c, "y_rw")
     ELSE /\ out' = Upd(out, c, Append(out[c], RewriteEv(chunk(ansS[c]))))
          /\ pc' = Upd(pc, c, "y_ans")
  /\ UNCHANGED <<store, storeUp, variant, rwS, ansS, status, exiting, berr,
                 finRuns, haltRes, nHalts, hmark>>
  /\ UNCHANGED aux

\* chat_workflow, lines 108/151/175 through generate, line 55: yield the
\* fragment as an Answer or Query Rewrite event
Emit(c) ==
  /\ pc[c] \in {"emit_rw", "emit_ans"}
  /\ IF pc[c] = "emit_rw"
     THEN /\ out' = Upd(out, c, Append(out[c], RewriteEv(chunk(rwS[c]))))
          /\ pc' = Upd(pc, c, "y_rw")
     ELSE /\ out' = Upd(out, c, Append(out[c], AnswerEv(chunk(ansS[c]))))
          /\ pc' = Upd(pc, c, "y_ans")
  /\ UNCHANGED <<store, storeUp, variant, rwS, ansS, status, exiting, berr,
                 finRuns, haltRes, nHalts, hmark>>
  /\ UNCHANGED aux

\* chat_workflow, lines 160-161: search_relevant_docs returned; yield Search
Search(c) ==
  /\ pc[c] = "search"
  /\ out' = Upd(out, c, Append(out[c], SearchEv))
  /\ pc' = Upd(pc, c, "y_search")
  /\ UNCHANGED <<store, storeUp, variant, rwS, ansS, status, exiting, berr,
                 finRuns, haltRes, nHalts, hmark>>
  /\ UNCHANGED aux

\* generate, lines 59-61: the finally block reads the status
FinalizeRead(c) ==
  /\ pc[c] = "fin_read"
  /\ finRuns' = Upd(finRuns, c, finRuns[c] + 1)
  /\ IF storeUp
     THEN /\ status' = Upd(status, c, CacheGet(store, c))
          /\ pc' = Upd(pc, c,
                IF NeedsComplete(CacheGet(store, c))
                THEN "fin_write" ELSE AfterFinally(c))
     ELSE /\ pc' = Upd(pc, c, "raised")
          /\ UNCHANGED status
  /\ UNCHANGED <<store, storeUp, variant, out, rwS, ansS, exiting, berr,
                 haltRes, nHalts, hmark>>
  /\ UNCHANGED aux

\* generate, line 62: the finally block writes COMPLETED
FinalizeWrite(c) ==
  /\ pc[c] = "fin_write"
  /\ IF storeUp
     THEN /\ store' = set_chat_status(store, c, COMPLETED)
          /\ pc' = Upd(pc, c, AfterFinally(c))
     ELSE /\ pc' = Upd(pc, c, "raised")
          /\ UNCHANGED store
  /\ UNCHANGED <<storeUp, variant, out, rwS, ansS, status, exiting, berr,
                 finRuns, haltRes, nHalts, hmark>>
  /\ finWrote' = Upd(finWrote, c, storeUp)
  /\ UNCHANGED <<think, app>>

\* generate, line 64 and the from_status call of line 65: read the status for
\* the End payload; from_status raises on None
EndRead(c) ==
  /\ pc[c] = "end_read"
  /\ IF storeUp
     THEN /\ status' = Upd(status, c, CacheGet(store, c))
          /\ pc' = Upd(pc, c,
                IF CacheGet(store, c).some THEN "emit_end" ELSE "raised")
     ELSE /\ pc' = Upd(pc, c, "raised")
          /\ UNCHANGED status
  /\ UNCHANGED <<store, storeUp, variant, out, rwS, ansS, exiting, berr,
                 finRuns, haltRes, nHalts, hmark>>
  /\ UNCHANGED aux

\* generate, line 65: yield the End event; the coroutine then returns
EmitEnd(c) ==
  /\ pc[c] = "emit_end"
  /\ out' = Upd(out, c, Append(out[c], EndEv(from_status(status[c]))))
  /\ pc' = Upd(pc, c, "done")
  /\ UNCHANGED <<store, storeUp, variant, rwS, ansS, status, exiting, berr,
                 finRuns, haltRes, nHalts, hmark>>
  /\ UNCHANGED aux

\* the consumer stops consuming: GeneratorExit is thrown at the yield where
\* generate is suspended. Line 50 lies outside the try, so nothing more runs
\* there; at line 55 the finally block runs and the exception goes on
Close(c) ==
  /\ pc[c] \in {"y_init", "y_rw", "y_search", "y_ans"}
  /\ ~exiting[c]
  /\ exiting' = Upd(exiting, c, TRUE)
  /\ pc' = Upd(pc, c, IF pc[c] = "y_init" THEN "closed" ELSE "fin_read")
  /\ UNCHANGED <<store, storeUp, variant, out, rwS, ansS, status, berr,
                 finRuns, haltRes, nHalts, hmark>>
  /\ UNCHANGED aux

\* ------------------------------------------------------------------ halt
\* pcs of the workflow body (after the ACTIVE write) at which no polled
\* status is waiting to be acted on
CleanPcs == {"emit_init", "y_init", "rw_poll", "y_rw", "search", "y_search",
             "poll", "y_ans"}

\* a halt that drops the key instead of marking it
halt_chat_Delete(k) ==
  IF k = ""
  THEN /\ haltRes' = Upd(haltRes, k, "ValueError")
       /\ UNCHANGED <<store, hmark>>
  ELSE IF storeUp
  THEN /\ store' = [x \in (DOMAIN store) \ {k} |-> store[x]]
       /\ haltRes' = Upd(haltRes, k, "ok")
       /\ UNCHANGED hmark
  ELSE /\ haltRes' = Upd(haltRes, k, "StoreError")
       /\ UNCHANGED <<store, hmark>>

\* a halt that marks only a session the cache knows (read, then write)
halt_chat_IfPresent(k) ==
  IF k = ""
  THEN /\ haltRes' = Upd(haltRes, k, "ValueError")
       /\ UNCHANGED <<store, hmark>>
  ELSE IF storeUp
  THEN /\ store' = IF k \in DOMAIN store
                   THEN set_chat_status(store, k, TERMINATED) ELSE store
       /\ haltRes' = Upd(haltRes, k, "ok")
       /\ hmark' = IF hmark[k] = NoMark /\ pc[k] \in CleanPcs
                   THEN Upd(hmark, k, [pc |-> pc[k], n |-> Len(out[k])])
                   ELSE hmark
  ELSE /\ haltRes' = Upd(haltRes, k, "StoreError")
       /\ UNCHANGED <<store, hmark>>

\* ChatInterface.halt_chat
halt_chat(k) ==
  IF k = ""
  THEN /\ haltRes' = Upd(haltRes, k, "ValueError")
       /\ UNCHANGED <<store, hmark>>
  ELSE IF storeUp
  THEN /\ store' = set_chat_status(store, k, TERMINATED)
       /\ haltRes' = Upd(haltRes, k, "ok")
       /\ hmark' = IF hmark[k] = NoMark /\ pc[k] \in CleanPcs
                   THEN Upd(hmark, k, [pc |-> pc[k], n |-> Len(out[k])])
                   ELSE hmark
  ELSE /\ haltRes' = Upd(haltRes, k, "StoreError")
       /\ UNCHANGED <<store, hmark>>

\* a request to /v1/chat/halt
Halt(k) ==
  /\ halt_chat(k)
  /\ nHalts' = Upd(nHalts, k, IF nHalts[k] < MaxHalts THEN nHalts[k] + 1 ELSE nHalts[k])
  /\ UNCHANGED <<storeUp, pc, variant, out, rwS, ansS, status, exiting, berr,
                 finRuns>>
  /\ UNCHANGED aux

\* the cache backend becomes unreachable; from here every cache call raises
StoreFail ==
  /\ storeUp
  /\ storeUp' = FALSE
  /\ UNCHANGED <<store, pc, variant, out, rwS, ansS, status, exiting, berr,
                 finRuns, haltRes, nHalts, hmark>>
  /\ UNCHANGED aux

GenStep(c) ==
  \/ Begin(c)
  \/ EmitInit(c)
  \/ WorkflowReject(c)
  \/ BackendFragment(c)
  \/ BackendEnd(c)
  \/ BackendError(c)
  \/ Poll(c)
  \/ Emit(c)
  \/ Search(c)
  \/ FinalizeRead(c)
  \/ FinalizeWrite(c)
  \/ EndRead(c)
  \/ EmitEnd(c)

Next ==
  \/ \E c \in ChatIds : GenStep(c)
  \/ \E c \in ChatIds : Close(c)
  \/ \E k \in ChatIds : Halt(k)
  \/ StoreFail

Spec == Init /\ [][Next]_vars

\* ------------------------------------------------------------ stream shape
Sessions == ChatIds \ {""}

\* positions of the events of kind k in an event sequence
Where(s, k) == {i \in 1..Len(s) : s[i][1] = k}

\* the consumer of c's stream keeps consuming and the cache has answered every call
Undisturbed(c) == storeUp /\ ~exiting[c]

\* C1: for a non-empty session id, in both workflows, for every backend stream
\* (ending or raising anywhere) and every interleaving of halts, the stream of
\* generate has Init as its first event and no other Init, has at most one End
\* and nothing after it, does not stop before End (no exception reaches the
\* consumer and a step is always enabled until the End is yielded), and once
\* generate has returned holds exactly one End, as its last event.
C1_InitFirstEndLast ==
  \A c \in Sessions :
    /\ out[c] # <<>> => out[c][1] = InitEv(c)
    /\ Where(out[c], "Init") \subseteq {1}
    /\ Where(out[c], "End") \subseteq {Len(out[c])}
    /\ Where(out[c], "End") # {} => pc[c] = "done"
    /\ pc[c] = "done" => Where(out[c], "Init") = {1} /\ Where(out[c], "End") = {Len(out[c])}
    /\ Undisturbed(c) => pc[c] \notin {"raised", "closed"}
    /\ (Undisturbed(c) /\ pc[c] \notin {"idle", "done"}) => ENABLED GenStep(c)

\* a retrieval-augmented generation that was halted and ran to its End
C1_Witness ==
  /\ variant["s1"] = "rag"
  /\ pc["s1"] = "done"
  /\ nHalts["s1"] > 0
  /\ Len(out["s1"]) >= 5
  /\ Undisturbed("s1")

\* ---------------------------------------------------------- halted sessions
\* the fragments forwarded as events of kind k, in order
Forwarded(s, k) == LET S == SelectSeq(s, LAMBDA e : e[1] = k)
                   IN [i \in 1..Len(S) |-> S[i][2]]

\* C2: when a halt lands after the ACTIVE write and before the workflow body's
\* next status poll (no polled status is waiting to be acted on), no Answer and
\* no Query Rewrite event is yielded from then on and the End event, once
\* yielded, carries -1; in the plain workflow and in every stage of the
\* retrieval-augmented one.
C2_HaltBeforePollStops ==
  \A c \in Sessions :
    hmark[c] # NoMark =>
      /\ \A i \in (hmark[c].n + 1)..Len(out[c]) :
           out[c][i][1] \notin {"Answer", "Query Rewrite"}
      /\ \A i \in Where(out[c], "End") : out[c][i] = EndEv(TERMINATED)
      /\ pc[c] = "done" => out[c][Len(out[c])] = EndEv(TERMINATED)

\* a halt landed during the rewrite stage, after one Query Rewrite event; the
\* stream went on to Search and ended with End(-1)
C2_Witness ==
  /\ variant["s1"] = "rag"
  /\ hmark["s1"] = [pc |-> "y_rw", n |-> 2]
  /\ pc["s1"] = "done"
  /\ Len(rwS["s1"]) = 2
  /\ Len(ansS["s1"]) = 1
  /\ out["s1"] = <<InitEv("s1"), RewriteEv("<think>"), SearchEv, EndEv(TERMINATED)>>

\* the same in the plain workflow, and in the retrieval and answer stages
C2_WitnessPlain ==
  /\ variant["s1"] = "plain"
  /\ hmark["s1"].pc = "poll"
  /\ pc["s1"] = "done"
  /\ out["s1"] = <<InitEv("s1"), AnswerEv("Hel"), EndEv(TERMINATED)>>

C2_WitnessSearch ==
  /\ hmark["s1"].pc = "search"
  /\ pc["s1"] = "done"
  /\ Len(ansS["s1"]) = 1

C2_WitnessAnswer ==
  /\ variant["s1"] = "rag"
  /\ hmark["s1"].pc = "y_ans"
  /\ pc["s1"] = "done"
  /\ Len(ansS["s1"]) = 3

\* C3: a generation that ran to natural completion (no backend raised) and for
\* whose session halt was never called ends with End(0), and the store holds
\* COMPLETED for the session once generate has returned.
C3_NaturalCompletion ==
  \A c \in Sessions :
    (pc[c] = "done" /\ nHalts[c] = 0 /\ berr[c] = "none") =>
      /\ out[c][Len(out[c])] = EndEv(COMPLETED)
      /\ CacheGet(store, c) = Some(COMPLETED)

\* a retrieval-augmented generation that completed with full streams
C3_Witness ==
  /\ variant["s1"] = "rag"
  /\ pc["s1"] = "done"
  /\ nHalts["s1"] = 0
  /\ berr["s1"] = "none"
  /\ Len(rwS["s1"]) = MaxRewrite
  /\ Len(ansS["s1"]) = MaxFrags

\* C4: in the plain workflow with no halt and no backend error, the events
\* between Init and End are one Answer per backend fragment, in the backend's
\* order, none lost, duplicated or reordered.
C4_AnswersAreTheFragments ==
  \A c \in Sessions :
    (variant[c] = "plain" /\ pc[c] = "done" /\ nHalts[c] = 0 /\ berr[c] = "none") =>
      out[c] = <<InitEv(c)>> \o [i \in 1..Len(ansS[c]) |-> AnswerEv(ansS[c][i])]
                             \o <<EndEv(COMPLETED)>>

\* the three-fragment scenario
C4_Witness ==
  /\ variant["s1"] = "plain"
  /\ nHalts["s1"] = 0
  /\ ansS["s1"] = <<"Hel", "lo ", "world">>
  /\ out["s1"] = <<InitEv("s1"), AnswerEv("Hel"), AnswerEv("lo "), AnswerEv("world"),
                   EndEv(COMPLETED)>>

\* C5: in the plain workflow the status is read again after each fragment; the
\* fragment is yielded as an Answer only if that read returned ACTIVE, and at
\* the first read that returns anything else the fragment is dropped, no
\* further fragment is pulled and the workflow ends.
C5_GateOnEachFragment ==
  \A c \in Sessions :
    variant[c] = "plain" =>
      LET A == Forwarded(out[c], "Answer") IN
      /\ pc[c] = "emit_ans" => status[c] = Some(ACTIVE)
      /\ pc[c] \in {"start", "emit_init", "y_init", "y_ans"} => A = ansS[c]
      /\ pc[c] \in {"poll", "emit_ans"} =>
           ansS[c] # <<>> /\ A = SubSeq(ansS[c], 1, Len(ansS[c]) - 1)
      /\ A # ansS[c] =>
           /\ A = SubSeq(ansS[c], 1, Len(ansS[c]) - 1)
           /\ pc[c] \notin {"y_init", "y_ans"}
           /\ (pc[c] = "fin_read" /\ status[c].some) => status[c].v # ACTIVE

\* the status turned TERMINATED after the first fragment was polled: the
\* second fragment is dropped and the third never pulled
C5_Witness ==
  /\ variant["s1"] = "plain"
  /\ pc["s1"] = "done"
  /\ ansS["s1"] = <<"Hel", "lo ">>
  /\ berr["s1"] = "none"
  /\ out["s1"] = <<InitEv("s1"), AnswerEv("Hel"), EndEv(TERMINATED)>>

\* ------------------------------------------------------- terminal statuses
\* the ACTIVE write of generate for c has been made
Begun(c) == pc[c] \notin {"idle", "start"}

\* the store holds status v for c
Holds(s, c, v) == CacheGet(s, c) = Some(v)

\* C6 as stated: once TERMINATED has landed in the store after begin (a halt
\* had been made), every later state of the run holds TERMINATED for the
\* session.
C6_TerminatedIsNeverReplaced ==
  [][\A c \in Sessions :
       (Begun(c) /\ nHalts[c] > 0 /\ Holds(store, c, TERMINATED))
         => Holds(store', c, TERMINATED)]_vars

\* C6 amended: COMPLETED is written only by the finalizer's write, and a
\* TERMINATED that landed after begin stays in the store in every later state
\* except when it landed between the finalizer's read (which returned another
\* status) and the finalizer's write: that write then replaces it (last write
\* wins). A TERMINATED the finalizer has read is left untouched.
C6_TerminatedStaysButForTheRace ==
  [][\A c \in Sessions :
       /\ (Begun(c) /\ Holds(store, c, TERMINATED))
            => \/ Holds(store', c, TERMINATED)
               \/ /\ pc[c] = "fin_write"
                  /\ status[c] # Some(TERMINATED)
                  /\ Holds(store', c, COMPLETED)
       /\ (Holds(store', c, COMPLETED) /\ ~Holds(store, c, COMPLETED))
            => pc[c] = "fin_write" /\ pc'[c] # "fin_write"]_vars

\* a halt landed during streaming and the finalizer, having read TERMINATED,
\* went on to the End read without writing
C6_Witness ==
  /\ pc["s1"] = "end_read"
  /\ hmark["s1"].pc = "y_ans"
  /\ status["s1"] = Some(TERMINATED)
  /\ Holds(store, "s1", TERMINATED)
  /\ finRuns["s1"] = 1

\* --------------------------------------------------------------- exit paths
\* generate for c has ended: it returned, or was closed by its consumer
Ended(c) == pc[c] \in {"done", "closed"}

\* C7 as stated: on every exit path of generate (normal completion, a workflow
\* error, the consumer closing the stream after any event, Init included) the
\* finalize step has run exactly once, and the session is not left ACTIVE.
C7_FinalizeOnEveryExit ==
  \A c \in Sessions :
    Ended(c) => finRuns[c] = 1 /\ ~Holds(store, c, ACTIVE)

\* what the code does guarantee: the finalize step never runs twice, and it
\* has run once on every exit but the close at the Init yield
C7_FinalizeInsideTry ==
  \A c \in Sessions :
    /\ finRuns[c] <= 1
    /\ (Ended(c) /\ Where(out[c], "Init") # {} /\ (exiting[c] => Len(out[c]) > 1))
         => finRuns[c] = 1 /\ (storeUp => ~Holds(store, c, ACTIVE))

\* C8: when a backend raises anywhere in the workflow body, no exception
\* reaches the consumer, the store holds TERMINATED for the session from then
\* on, no event but the End is yielded afterwards, and the End carries -1.
C8_BackendErrorEndsCleanly ==
  /\ [](\A c \in Sessions :
          berr[c] # "none" =>
            /\ storeUp => pc[c] # "raised"
            /\ pc[c] # "raised" => Holds(store, c, TERMINATED)
            /\ pc[c] = "done" => /\ Where(out[c], "End") = {Len(out[c])}
                                 /\ out[c][Len(out[c])] = EndEv(TERMINATED))
  /\ [][\A c \in Sessions :
          berr'[c] # "none" =>
            \/ out'[c] = out[c]
            \/ berr[c] # "none" /\ out'[c] = Append(out[c], EndEv(TERMINATED))]_vars

\* the retrieval raised after a Query Rewrite event; the stream ended with End(-1)
C8_Witness ==
  /\ berr["s1"] = "search"
  /\ pc["s1"] = "done"
  /\ nHalts["s1"] = 0
  /\ out["s1"] = <<InitEv("s1"), RewriteEv("<think>"), EndEv(TERMINATED)>>

\* C9 as stated: generate touches the cache only after it has yielded Init (as
\* long as no Init is out and no halt was made, the session's key is not in
\* the store), so the consumer has received Init whenever a cache call of
\* generate fails.
C9_InitBeforeAnyStoreCall ==
  \A c \in ChatIds :
    /\ (out[c] = <<>> /\ nHalts[c] = 0) => c \notin DOMAIN store
    /\ pc[c] = "raised" => out[c] # <<>> /\ out[c][1] = InitEv(c)

\* the second half alone: a generate that failed on the cache had yielded Init
C9_InitEvenIfStoreFails ==
  \A c \in ChatIds :
    pc[c] = "raised" => out[c] # <<>> /\ out[c][1] = InitEv(c)

\* C10: a halt with a non-empty id that reaches the store raises nothing and
\* leaves TERMINATED for the id; made when the id already holds TERMINATED (a
\* second halt in succession) it leaves the whole store as it was. A halt
\* right after begin reads back TERMINATED.
C10_HaltIdempotent ==
  /\ [](\A c \in Sessions :
          (pc[c] = "emit_init" /\ hmark[c].pc = "emit_init")
            => Holds(store, c, TERMINATED))
  /\ [][\A k \in Sessions :
          (Halt(k) /\ storeUp) =>
            /\ Holds(store', k, TERMINATED)
            /\ haltRes'[k] = "ok"
            /\ \A x \in (DOMAIN store) \ {k} :
                 x \in DOMAIN store' /\ store'[x] = store[x]
            /\ Holds(store, k, TERMINATED) => store' = store]_vars

\* begin, then two halts in succession, with another key in the store
C10_Witness ==
  /\ pc["s1"] = "emit_init"
  /\ hmark["s1"].pc = "emit_init"
  /\ nHalts["s1"] = 2
  /\ haltRes["s1"] = "ok"
  /\ "s2" \in DOMAIN store
  /\ Holds(store, "s1", TERMINATED)

\* ------------------------------------------------------------ empty chat id
\* C11: an empty chat id is rejected before any store mutation, on halt and on
\* begin alike: halt_chat("") ends in ValueError, generate("") does not run the
\* workflow, and the cache holds no key "" afterwards. The code yields Init,
\* lets the workflow raise ValueError, and then writes TERMINATED under the
\* key "" in generate's handler.
C11_EmptyIdLeavesStore ==
  /\ "" \notin DOMAIN store
  /\ haltRes[""] \in {"none", "ValueError"}
  /\ Where(out[""], "Answer") = {}

\* the halt half of C11, which the code does keep: no halt_chat("") touches
\* the cache
C11_HaltEmptyRejected ==
  [][\A k \in ChatIds : (Halt(k) /\ k = "") => (store' = store /\ haltRes'[k] = "ValueError")]_vars

\* ----------------------------------------------- retrieval-augmented stages
\* pcs of the retrieval-augmented workflow that lie after the yield of Search
AfterSearchPcs == {"y_search", "poll", "emit_ans", "y_ans"}

\* C12: in a run of the retrieval-augmented workflow in which no backend
\* raises, exactly one Search event is emitted, whether the rewrite stream ran
\* to its end or the rewrite loop was left on a status other than ACTIVE (a
\* halt during the rewrite stage): never more than one, one as soon as the
\* workflow is past the retrieval, and one in the stream of every generate that
\* has returned.
C12_ExactlyOneSearch ==
  \A c \in Sessions :
    variant[c] = "rag" =>
      /\ Cardinality(Where(out[c], "Search")) <= 1
      /\ pc[c] \in AfterSearchPcs => Cardinality(Where(out[c], "Search")) = 1
      /\ (pc[c] = "done" /\ berr[c] = "none") =>
           Cardinality(Where(out[c], "Search")) = 1

\* a halt landed during the rewrite stage, the rewrite loop was left early,
\* and the stream that ended still holds its Search event
C12_Witness ==
  /\ variant["s1"] = "rag" /\ pc["s1"] = "done" /\ berr["s1"] = "none"
  /\ hmark["s1"].pc \in {"rw_poll", "y_rw"}
  /\ Len(rwS["s1"]) < MaxRewrite
  /\ Where(out["s1"], "Answer") = {}
  /\ Cardinality(Where(out["s1"], "Search")) = 1

\* the rewrite stream ran to its end and the stream holds its Search event
C12_WitnessExhausted ==
  /\ variant["s1"] = "rag" /\ pc["s1"] = "done" /\ nHalts["s1"] = 0
  /\ Len(rwS["s1"]) = MaxRewrite
  /\ Cardinality(Where(out["s1"], "Search")) = 1

\* the place of an event kind in the order of the stages
StageRank(k) ==
  IF k = "Init" THEN 0
  ELSE IF k = "Query Rewrite" THEN 1
  ELSE IF k = "Search" THEN 2
  ELSE IF k = "Answer" THEN 3
  ELSE 4

\* C13: within one session's stream the events come in stage order under every
\* interleaving of halts: Init, then the Query Rewrite events, then Search,
\* then the Answer events, then End; no Query Rewrite follows a Search or an
\* Answer, every Answer of the retrieval-augmented workflow has the Search
\* before it, and the plain workflow emits neither Query Rewrite nor Search.
C13_StageOrder ==
  \A c \in Sessions :
    /\ \A i \in 1..Len(out[c]) : \A j \in 1..Len(out[c]) :
         i < j => StageRank(out[c][i][1]) <= StageRank(out[c][j][1])
    /\ variant[c] = "rag" =>
         \A j \in Where(out[c], "Answer") :
           \E i \in Where(out[c], "Search") : i < j
    /\ variant[c] = "plain" =>
         Where(out[c], "Query Rewrite") \cup Where(out[c], "Search") = {}

\* a stream with all five kinds of event, ended by a halt in the answer stage
C13_Witness ==
  /\ variant["s1"] = "rag" /\ pc["s1"] = "done" /\ nHalts["s1"] > 0
  /\ Cardinality(Where(out["s1"], "Query Rewrite")) = MaxRewrite
  /\ Where(out["s1"], "Search") # {}
  /\ Where(out["s1"], "Answer") # {}
  /\ out["s1"][Len(out["s1"])] = EndEv(TERMINATED)

\* pcs of generate after the workflow is over
AfterWorkflowPcs == {"fin_read", "fin_write", "end_read", "emit_end", "done",
                     "closed", "raised"}

\* C14: in the retrieval-augmented workflow a backend error in any stage ends
\* the workflow without the later stages: after an error in the query rewrite
\* the retrieval is never called, no Search is emitted and the answer
\* generation is never called; after an error in the retrieval the answer
\* generation is never called (and no Search is emitted); the handler marks the
\* status TERMINATED.
C14_ErrorAbortsLaterStages ==
  /\ [](\A c \in Sessions :
         (variant[c] = "rag" /\ berr[c] \in {"rewrite", "search"}) =>
           /\ pc[c] \in AfterWorkflowPcs
           /\ Where(out[c], "Search") = {}
           /\ Where(out[c], "Answer") = {}
           /\ ansS[c] = <<>>)
  /\ [][\A c \in Sessions :
         (variant[c] = "rag" /\ berr'[c] # berr[c] /\ storeUp) =>
           /\ Holds(store', c, TERMINATED)
           /\ pc'[c] = "fin_read"]_vars

\* the retrieval raised after a complete query rewrite; the stream ended with
\* neither Search nor Answer
C14_Witness ==
  /\ variant["s1"] = "rag" /\ berr["s1"] = "search" /\ pc["s1"] = "done"
  /\ nHalts["s1"] = 0
  /\ Cardinality(Where(out["s1"], "Query Rewrite")) = MaxRewrite
  /\ out["s1"][Len(out["s1"])] = EndEv(TERMINATED)

\* the query rewrite raised; the stream ended with neither Search nor Answer
C14_WitnessRewrite ==
  /\ variant["s1"] = "rag" /\ berr["s1"] = "rewrite" /\ pc["s1"] = "done"
  /\ nHalts["s1"] = 0
  /\ out["s1"][Len(out["s1"])] = EndEv(TERMINATED)

\* --------------------------------------------------------- terminal statuses
\* C15: COMPLETED and TERMINATED are terminal: once the stored status of a
\* session is one of them, no step of generate and no halt changes it; in
\* particular a halt on a COMPLETED session and the finalizer on a TERMINATED
\* session leave it as it is. (Stated for the steps after the begin, and
\* without the finalizer's pending write of C6.)
C15_TerminalStatuses ==
  [][\A c \in Sessions :
       Begun(c) =>
         /\ Holds(store, c, COMPLETED) => Holds(store', c, COMPLETED)
         /\ (Holds(store, c, TERMINATED) /\ pc[c] # "fin_write")
              => Holds(store', c, TERMINATED)]_vars

\* C15 as the code has it: after the begin, COMPLETED gives way only to a
\* halt, which writes TERMINATED whatever is stored, and TERMINATED gives way
\* only to the COMPLETED write of a finalizer that had read another status (the
\* race of C6); the finalizer leaves a TERMINATED it read as it is, a halt on
\* TERMINATED changes nothing, and neither status gives way to ACTIVE or to an
\* absent key.
C15_OnlyHaltLeavesCompleted ==
  [][\A c \in Sessions : Begun(c) =>
       /\ Holds(store, c, COMPLETED) =>
            \/ Holds(store', c, COMPLETED)
            \/ Halt(c) /\ Holds(store', c, TERMINATED)
       /\ Holds(store, c, TERMINATED) =>
            \/ Holds(store', c, TERMINATED)
            \/ /\ FinalizeWrite(c)
               /\ status[c] # Some(TERMINATED)
               /\ Holds(store', c, COMPLETED)]_vars

\* the finalizer wrote COMPLETED, the End read saw it, and a halt then turned
\* the stored status into TERMINATED
C15_Witness ==
  /\ finRuns["s1"] = 1 /\ pc["s1"] \in {"emit_end", "done"}
  /\ status["s1"] = Some(COMPLETED)
  /\ nHalts["s1"] = 1
  /\ Holds(store, "s1", TERMINATED)

\* ----------------------------------------------------------- the End reason
\* C16: when an id is used by a single generation and its key is never deleted,
\* the reason of the End event is COMPLETED (0) or TERMINATED (-1) under every
\* interleaving of halts, never ACTIVE (1): the status read for the payload is
\* one of the two, and so is the payload of every End yielded.
C16_EndReasonIsTerminal ==
  \A c \in Sessions :
    /\ pc[c] = "emit_end" => status[c] \in {Some(COMPLETED), Some(TERMINATED)}
    /\ \A i \in Where(out[c], "End") : out[c][i][2] \in {COMPLETED, TERMINATED}

\* an End with reason 0 was yielded although a halt landed (after the read of
\* the status for the payload)
C16_Witness ==
  /\ pc["s1"] = "done" /\ nHalts["s1"] > 0
  /\ out["s1"][Len(out["s1"])] = EndEv(COMPLETED)

\* an End with reason -1 was yielded after a halt in the answer stage
C16_WitnessTerminated ==
  /\ pc["s1"] = "done" /\ hmark["s1"].pc \in {"poll", "y_ans"}
  /\ out["s1"][Len(out["s1"])] = EndEv(TERMINATED)

\* ------------------------------------------------------ session independence
\* two /v1/chat/completions requests without retrieval, for the ids s1 and s2,
\* served concurrently by two ChatService instances over one cache, with halts
\* for either id
InitPair ==
  /\ store = [x \in {} |-> 0]
  /\ storeUp = TRUE
  /\ pc = [c \in ChatIds |-> IF c \in Sessions THEN "start" ELSE "idle"]
  /\ variant = [c \in ChatIds |-> "plain"]
  /\ out = [c \in ChatIds |-> <<>>]
  /\ rwS = [c \in ChatIds |-> <<>>]
  /\ ansS = [c \in ChatIds |-> <<>>]
  /\ status = [c \in ChatIds |-> None]
  /\ exiting = [c \in ChatIds |-> FALSE]
  /\ berr = [c \in ChatIds |-> "none"]
  /\ finRuns = [c \in ChatIds |-> 0]
  /\ haltRes = [c \in ChatIds |-> "none"]
  /\ nHalts = [c \in ChatIds |-> 0]
  /\ hmark = [c \in ChatIds |-> NoMark]
  /\ finWrote = [c \in ChatIds |-> FALSE]
  /\ think = NoCall
  /\ app = NoApp

NextPair ==
  \/ \E c \in Sessions : Begin(c)
  \/ \E c \in Sessions : EmitInit(c)
  \/ \E c \in Sessions : BackendFragment(c)
  \/ \E c \in Sessions : BackendEnd(c)
  \/ \E c \in Sessions : BackendError(c)
  \/ \E c \in Sessions : Poll(c)
  \/ \E c \in Sessions : Emit(c)
  \/ \E c \in Sessions : FinalizeRead(c)
  \/ \E c \in Sessions : FinalizeWrite(c)
  \/ \E c \in Sessions : EndRead(c)
  \/ \E c \in Sessions : EmitEnd(c)
  \/ \E k \in Sessions : Halt(k)

SpecPair == InitPair /\ [][NextPair]_vars

\* what belongs to chat id t: its key in the cache and its generate coroutine
Own(t) == <<CacheGet(store, t), pc[t], out[t], status[t], rwS[t], ansS[t],
            berr[t], finRuns[t]>>

\* C17: sessions are independent: for distinct ids s and t, no step executed
\* for s (begin, workflow poll, error handler, finalizer, End, close by the
\* consumer, halt) changes the stored status of t or anything of t's
\* generation, and the status a step for s reads is the one stored under s; so
\* t's stream and End reason do not depend on what runs for s: whatever s does,
\* a generation of t without retrieval that was not halted and met no backend
\* error returns the stream Init, one Answer per fragment, End(0) and leaves
\* COMPLETED.
C17_SessionsIndependent ==
  /\ [][\A s \in ChatIds : \A t \in ChatIds \ {s} :
         (GenStep(s) \/ Close(s) \/ Halt(s)) =>
           /\ Own(t)' = Own(t)
           /\ status'[s] \in {status[s], CacheGet(store, s)}]_vars
  /\ [](\A t \in Sessions :
         (/\ pc[t] = "done" /\ variant[t] = "plain"
          /\ nHalts[t] = 0 /\ berr[t] = "none" /\ Undisturbed(t)) =>
           /\ out[t] = <<InitEv(t)>>
                       \o [i \in 1..Len(ansS[t]) |-> AnswerEv(ansS[t][i])]
                       \o <<EndEv(COMPLETED)>>
           /\ Holds(store, t, COMPLETED))

\* the generation of s1 ran to COMPLETED and End(0) while the generation of
\* s2 was halted and ended with End(-1)
C17_Witness ==
  /\ pc["s1"] = "done" /\ nHalts["s1"] = 0 /\ berr["s1"] = "none"
  /\ pc["s2"] = "done" /\ nHalts["s2"] > 0
  /\ Len(ansS["s1"]) = MaxFrags
  /\ Holds(store, "s1", COMPLETED) /\ Holds(store, "s2", TERMINATED)
  /\ out["s1"][Len(out["s1"])] = EndEv(COMPLETED)
  /\ out["s2"][Len(out["s2"])] = EndEv(TERMINATED)

\* --------------------------------------------------------------- remove_think
\* every variable of the chat services in its state before any request
Quiet ==
  /\ store = [x \in {} |-> 0]
  /\ storeUp = TRUE
  /\ pc = [c \in ChatIds |-> "idle"]
  /\ variant = [c \in ChatIds |-> "plain"]
  /\ out = [c \in ChatIds |-> <<>>]
  /\ rwS = [c \in ChatIds |-> <<>>]
  /\ ansS = [c \in ChatIds |-> <<>>]
  /\ status = [c \in ChatIds |-> None]
  /\ exiting = [c \in ChatIds |-> FALSE]
  /\ berr = [c \in ChatIds |-> "none"]
  /\ finRuns = [c \in ChatIds |-> 0]
  /\ haltRes = [c \in ChatIds |-> "none"]
  /\ nHalts = [c \in ChatIds |-> 0]
  /\ hmark = [c \in ChatIds |-> NoMark]
  /\ finWrote = [c \in ChatIds |-> FALSE]

\* the variables of the chat services
chatVars == <<store, storeUp, pc, variant, out, rwS, ansS, status, exiting,
              berr, finRuns, haltRes, nHalts, hmark, finWrote>>

\* a text is a sequence of characters (code points); "Idot" stands for
\* U+0130 (capital I with dot above) and "dot" for U+0307 (combining dot above)
\* the marker remove_think looks for, "</think>"
ThinkEnd == <<"<", "/", "t", "h", "i", "n", "k", ">">>

\* str.lower() of one character: U+0130 is the one character whose lowercase
\* is two characters long
LowerOf(ch) ==
  IF ch = "T" THEN <<"t">>
  ELSE IF ch = "H" THEN <<"h">>
  ELSE IF ch = "I" THEN <<"i">>
  ELSE IF ch = "N" THEN <<"n">>
  ELSE IF ch = "K" THEN <<"k">>
  ELSE IF ch = "A" THEN <<"a">>
  ELSE IF ch = "Idot" THEN <<"i", "dot">>
  ELSE <<ch>>

\* str.lower()
RECURSIVE PyLower(_)
PyLower(s) == IF s = <<>> THEN <<>> ELSE LowerOf(Head(s)) \o PyLower(Tail(s))

\* str.find(sub) searching from the 0-based index i: the lowest index at
\* which sub occurs, or -1
RECURSIVE PyFind(_, _, _)
PyFind(s, sub, i) ==
  IF i + Len(sub) > Len(s) THEN -1
  ELSE IF SubSeq(s, i + 1, i + Len(sub)) = sub THEN i
  ELSE PyFind(s, sub, i + 1)

\* the slice s[k:] for k >= 0
PySliceFrom(s, k) == IF k >= Len(s) THEN <<>> ELSE SubSeq(s, k + 1, Len(s))

\* RAGService.remove_think
remove_think(text) ==
  LET idx == PyFind(PyLower(text), ThinkEnd, 0)
  IN IF idx # -1 THEN PySliceFrom(text, idx + Len(ThinkEnd)) ELSE text

\* the pieces the texts given to remove_think are made of: plain characters,
\* the marker in lower and in mixed case, and a beginning of the marker
Pieces == {<<"a">>, <<"Idot">>, ThinkEnd,
           <<"<", "/", "T", "h", "I", "N", "k", ">">>, <<"<", "/", "t">>}

\* texts are made of at most MaxPieces pieces
MaxPieces == 3

RECURSIVE TextsOf(_)
TextsOf(n) ==
  IF n = 0 THEN {<<>>}
  ELSE TextsOf(n - 1) \cup {t \o p : t \in TextsOf(n - 1), p \in Pieces}

Texts == TextsOf(MaxPieces)

InitThink == Quiet /\ think = NoCall /\ app = NoApp

\* a call of remove_think on the text t
RemoveThink(t) ==
  /\ think' = [text |-> t, result |-> remove_think(t), called |-> TRUE]
  /\ UNCHANGED <<chatVars, app>>

NextThink == \E t \in Texts : RemoveThink(t)

SpecThink == InitThink /\ [][NextThink]_vars

\* the marker occurs in t at position i (1-based), whatever the case of its
\* letters
MarkerAt(t, i) ==
  /\ i + Len(ThinkEnd) - 1 <= Len(t)
  /\ \A j \in 1..Len(ThinkEnd) : LowerOf(t[i + j - 1]) = <<ThinkEnd[j]>>

\* the text after the first occurrence of the marker, or the whole text
AfterFirstMarker(t) ==
  LET occ == {i \in 1..Len(t) : MarkerAt(t, i)}
  IN IF occ = {} THEN t
     ELSE LET first == CHOOSE i \in occ : \A j \in occ : i <= j
          IN SubSeq(t, first + Len(ThinkEnd), Len(t))

\* C18: remove_think discards the text up to and including the first
\* occurrence of "</think>" in any case and returns the rest; a text without
\* the marker is returned unchanged.
C18_RemoveThink ==
  think.called => think.result = AfterFirstMarker(think.text)

\* C18 for the texts whose characters all have a lowercase of length one
C18_RemoveThinkSameLength ==
  (think.called /\ \A i \in 1..Len(think.text) : think.text[i] # "Idot")
    => think.result = AfterFirstMarker(think.text)

\* a mixed-case marker after a beginning of the marker was found and cut
C18_SeenMixedCase ==
  /\ think.called
  /\ think.text = <<"<", "/", "t">> \o <<"<", "/", "T", "h", "I", "N", "k", ">">> \o <<"a">>
  /\ think.result = <<"a">>

\* ----------------------------------------------------------------- LocalCache
\* keys are strings, here sequences of characters
CacheKeys == {<<"s">>, <<"s", "1">>, <<"s", "2">>, <<"t", "1">>, <<"*">>}

\* the values the chat services store
CacheValues == {ACTIVE, COMPLETED, TERMINATED}

\* the patterns keys() is called with: "*", prefixes followed by "*", exact
\* keys (stored or not) and the empty pattern
Patterns == CacheKeys \cup {<<"s", "*">>, <<"s", "1", "*">>, <<"x", "*">>,
                            <<"x">>, <<>>}

\* a startswith that wants the whole key
StartsWith_Equal(k, p) == k = p

\* str.startswith
RECURSIVE StartsWith(_, _)
StartsWith(k, p) ==
  IF p = <<>> THEN TRUE
  ELSE IF k = <<>> THEN FALSE
  ELSE Head(k) = Head(p) /\ StartsWith(Tail(k), Tail(p))

\* pattern.endswith("*")
EndsWithStar(p) == p # <<>> /\ p[Len(p)] = "*"

\* LocalCache.keys
LocalKeys(s, pattern) ==
  IF pattern = <<"*">> THEN DOMAIN s
  ELSE IF EndsWithStar(pattern)
  THEN {k \in DOMAIN s : StartsWith(k, SubSeq(pattern, 1, Len(pattern) - 1))}
  ELSE {k \in DOMAIN s : k = pattern}

\* LocalCache.exists
LocalExists(s, k) == k \in DOMAIN s

\* what LocalCache.delete leaves: _store.pop(key, None)
CacheDel(s, k) == [x \in (DOMAIN s) \ {k} |-> s[x]]

InitCache == Quiet /\ think = NoCall /\ app = NoApp

\* what the operations of the cache leave alone
cacheFrame == <<storeUp, pc, variant, out, rwS, ansS, status, exiting, berr,
                finRuns, haltRes, nHalts, hmark, finWrote, think, app>>

\* LocalCache.set
LocalSet(k, v) ==
  /\ store' = CacheSet(store, k, v)
  /\ UNCHANGED cacheFrame

\* LocalCache.delete
LocalDelete(k) ==
  /\ store' = CacheDel(store, k)
  /\ UNCHANGED cacheFrame

\* LocalCache.close
LocalClose ==
  /\ store' = [x \in {} |-> 0]
  /\ UNCHANGED cacheFrame

NextCache ==
  \/ \E k \in CacheKeys : \E v \in CacheValues : LocalSet(k, v)
  \/ \E k \in CacheKeys : LocalDelete(k)
  \/ LocalClose

SpecCache == InitCache /\ [][NextCache]_vars

\* the key k matches the pattern p
Matches(k, p) ==
  IF p = <<"*">> THEN TRUE
  ELSE IF p # <<>> /\ p[Len(p)] = "*"
  THEN /\ Len(k) >= Len(p) - 1
       /\ \A i \in 1..(Len(p) - 1) : k[i] = p[i]
  ELSE k = p

\* C19: after any sequence of set and delete on the in-process cache,
\* keys(pattern) is exactly the set of stored keys that match (all of them for
\* "*", those beginning with the prefix for "<prefix>*", the key equal to the
\* pattern otherwise); a key is among keys("*") iff exists(key) iff get(key) is
\* not None; and get returns the last value set: a set binds its key to its
\* value, a delete unbinds its key, and both leave every other key as it was.
C19_KeysGetExistsAgree ==
  /\ [](/\ \A p \in Patterns :
            LocalKeys(store, p) = {k \in DOMAIN store : Matches(k, p)}
        /\ \A k \in CacheKeys :
            /\ (k \in LocalKeys(store, <<"*">>)) = LocalExists(store, k)
            /\ LocalExists(store, k) = CacheGet(store, k).some
            /\ LocalExists(store, k) => CacheGet(store, k).v \in CacheValues)
  /\ [][\A k \in CacheKeys :
         /\ \A v \in CacheValues :
              LocalSet(k, v) =>
                /\ CacheGet(store', k) = Some(v)
                /\ \A o \in CacheKeys \ {k} : CacheGet(store', o) = CacheGet(store, o)
         /\ LocalDelete(k) =>
              /\ CacheGet(store', k) = None
              /\ ~LocalExists(store', k)
              /\ \A o \in CacheKeys \ {k} : CacheGet(store', o) = CacheGet(store, o)]_vars

\* three keys are stored, two of them under the prefix "s", and the key "s"
\* itself was deleted or never set: keys("s*") is the two, keys("s") is empty
C19_Witness ==
  /\ DOMAIN store = {<<"s", "1">>, <<"s", "2">>, <<"t", "1">>}
  /\ store[<<"s", "1">>] = TERMINATED /\ store[<<"s", "2">>] = ACTIVE
  /\ LocalKeys(store, <<"s", "*">>) = {<<"s", "1">>, <<"s", "2">>}
  /\ LocalKeys(store, <<"s">>) = {}
  /\ LocalKeys(store, <<"*">>) = DOMAIN store

\* -------------------------------------------------------------------- startup
\* requests served in one run of the application that are told apart
MaxRequests == 3

\* what RedisCache finds when it is constructed: a configuration and the
\* aioredis package, no configuration, or no aioredis package
RedisEnvs == {"ok", "no_config", "no_aioredis"}

\* RedisCache.init: returns, or raises on a missing configuration or package
\* (from_url does not connect)
RedisInit(r) ==
  IF r = "no_config" THEN "ValueError"
  ELSE IF r = "no_aioredis" THEN "RuntimeError"
  ELSE "ok"

\* the handlers of the router; each takes the cache through Depends(get_cache)
Handlers == {"completions", "halt", "summarize"}

\* api.get_cache: the cache on app.state, or RuntimeError when there is none
get_cache(a) == IF a.cache = "none" THEN "RuntimeError" ELSE "ok"

\* main.py, lines 21-54: the application object is created; nothing is put on
\* app.state
InitApp ==
  /\ Quiet
  /\ think = NoCall
  /\ \E r \in RedisEnvs :
       app = [phase |-> "created", cache |-> "none", served |-> <<>>, redis |-> r]

\* main.startup_event: logs
Startup ==
  /\ app.phase = "created"
  /\ app' = [app EXCEPT !.phase = "started"]
  /\ UNCHANGED <<chatVars, think>>

\* a request to one of the handlers: its dependency get_cache is resolved first
Request(h) ==
  /\ app.phase = "started"
  /\ Len(app.served) < MaxRequests
  /\ app' = [app EXCEPT !.served = Append(@, [handler |-> h, cache |-> get_cache(app)])]
  /\ UNCHANGED <<chatVars, think>>

\* main.shutdown_event: logs
Shutdown ==
  /\ app.phase = "started"
  /\ app' = [app EXCEPT !.phase = "stopped"]
  /\ UNCHANGED <<chatVars, think>>

NextApp ==
  \/ Startup
  \/ \E h \in Handlers : Request(h)
  \/ Shutdown

SpecApp == InitApp /\ [][NextApp]_vars

\* C20: at startup a cache is always installed for the handlers, the
\* RedisCache when its init returns and the LocalCache otherwise, so that after
\* startup every chat and halt request obtains a cache.
C20_CacheInstalledAtStartup ==
  app.phase \in {"started", "stopped"} =>
    /\ app.cache = (IF RedisInit(app.redis) = "ok" THEN "redis" ELSE "local")
    /\ \A i \in 1..Len(app.served) :
         app.served[i].handler \in {"completions", "halt"}
           => app.served[i].cache = "ok"

\* what the code does instead: app.state.cache is never set, and every request
\* served ends in get_cache's RuntimeError
C20_NoCacheEver ==
  /\ app.cache = "none"
  /\ \A i \in 1..Len(app.served) : app.served[i].cache = "RuntimeError"

\* ------------------------------------------------ calls after an observed halt
\* a fragment of the query rewrite was delivered and not forwarded: the rewrite
\* loop polled a status other than ACTIVE and broke out
RewriteStopped(c) ==
  Len(rwS[c]) > Cardinality(Where(out[c], "Query Rewrite"))

\* the answer loop makes its first pull: generate_stream is entered and issues
\* the completion request (llm.py, line 110)
AnswerCallStarts(c) ==
  /\ pc[c] = (IF variant[c] = "rag" THEN "y_search" ELSE "y_init")
  /\ BackendFragment(c) \/ BackendEnd(c) \/ BackendError(c)

\* C21: once the workflow body has observed a status other than ACTIVE, no new
\* call to the generation backend is started for the session; in the
\* retrieval-augmented workflow a halt observed during the query rewrite is not
\* followed by an answer-generation call.
C21_NoNewCallAfterObservedHalt ==
  [][\A c \in Sessions : AnswerCallStarts(c) => ~RewriteStopped(c)]_vars

\* the part of C21 the code keeps: a loop that polled a status other than
\* ACTIVE pulls nothing more from its own stream, and in the plain workflow and
\* in the answer stage the workflow is then over
C21_StoppedLoopPullsNoMore ==
  [][\A c \in Sessions :
       (pc[c] \in {"rw_poll", "poll"} /\ storeUp /\ ~ShouldEmit(CacheGet(store, c))
          /\ Poll(c)) =>
         /\ pc[c] = "poll" => pc'[c] = "fin_read"
         /\ pc[c] = "rw_poll" => (pc'[c] = "search" /\ ~RewritePull(c)')]_vars

\* --------------------------------------------------- halt on an unknown id
\* C22: a halt on an id that has no entry in the cache is a no-op: it raises
\* nothing and the cache holds the same keys and values after it as before.
C22_HaltOnAbsentChangesNothing ==
  [][\A k \in Sessions :
       (Halt(k) /\ storeUp /\ k \notin DOMAIN store) =>
         (haltRes'[k] = "ok" /\ store' = store)]_vars

\* C22 as the code has it: a halt on an id that has no entry raises nothing
\* and creates the entry, bound to TERMINATED; every other key keeps its
\* value and no other key appears.
C22_HaltOnAbsentCreatesTerminated ==
  [][\A k \in Sessions :
       (Halt(k) /\ storeUp /\ k \notin DOMAIN store) =>
         /\ haltRes'[k] = "ok"
         /\ DOMAIN store' = (DOMAIN store) \cup {k}
         /\ store'[k] = TERMINATED
         /\ \A x \in DOMAIN store : store'[x] = store[x]]_vars

\* s2 was never begun; one halt on it left the entry s2 -> TERMINATED next to
\* the entry of the running session s1
C22_Witness ==
  /\ pc["s2"] = "idle" /\ nHalts["s2"] = 1 /\ haltRes["s2"] = "ok"
  /\ Holds(store, "s2", TERMINATED)
  /\ Holds(store, "s1", ACTIVE) /\ nHalts["s1"] = 0

\* ------------------------------------------- halt between finalizer and End
\* every fragment the backend delivered to c's workflow was forwarded, in order
AllForwarded(c) ==
  /\ Forwarded(out[c], "Answer") = ansS[c]
  /\ Forwarded(out[c], "Query Rewrite") = rwS[c]

\* C23: there is an interleaving in which the finalizer writes COMPLETED, a
\* halt lands before the status read that builds the End payload, and the End
\* carries -1, not the value the finalizer wrote, although every fragment of
\* the backend was forwarded. The interleaving is C23_Witness; wherever an End
\* with -1 follows a COMPLETED write of the finalizer, a halt did land, no
\* backend raised, nothing was dropped and the End is the only one.
C23_EndAfterCompletedWrite ==
  \A c \in Sessions :
    (finWrote[c] /\ pc[c] = "done" /\ out[c][Len(out[c])] = EndEv(TERMINATED)) =>
      /\ nHalts[c] > 0
      /\ berr[c] = "none"
      /\ AllForwarded(c)
      /\ Cardinality(Where(out[c], "End")) = 1

\* the one halt of the run landed after the finalizer's COMPLETED write and
\* before the read for the End payload: a complete answer, then End(-1)
C23_Witness ==
  /\ finWrote["s1"] /\ pc["s1"] = "done"
  /\ nHalts["s1"] = 1 /\ hmark["s1"] = NoMark
  /\ Len(ansS["s1"]) = MaxFrags /\ AllForwarded("s1")
  /\ out["s1"][Len(out["s1"])] = EndEv(TERMINATED)
  /\ Holds(store, "s1", TERMINATED)

\* ------------------------------------------------------------------ liveness
\* one generation for s1, in either workflow, with halts for both sessions;
\* the cache answers every call and the consumer keeps consuming
InitLive ==
  /\ store = [x \in {} |-> 0]
  /\ storeUp = TRUE
  /\ pc = [c \in ChatIds |-> IF c = "s1" THEN "start" ELSE "idle"]
  /\ \E v \in Variants : variant = [c \in ChatIds |-> v]
  /\ out = [c \in ChatIds |-> <<>>]
  /\ rwS = [c \in ChatIds |-> <<>>]
  /\ ansS = [c \in ChatIds |-> <<>>]
  /\ status = [c \in ChatIds |-> None]
  /\ exiting = [c \in ChatIds |-> FALSE]
  /\ berr = [c \in ChatIds |-> "none"]
  /\ finRuns = [c \in ChatIds |-> 0]
  /\ haltRes = [c \in ChatIds |-> "none"]
  /\ nHalts = [c \in ChatIds |-> 0]
  /\ hmark = [c \in ChatIds |-> NoMark]
  /\ finWrote = [c \in ChatIds |-> FALSE]
  /\ think = NoCall
  /\ app = NoApp

\* the steps of the coroutine of c: each one is taken once the event loop
\* resumes the coroutine, the backend answers or the consumer asks for the
\* next event
LiveStep(c) ==
  \/ Begin(c)
  \/ EmitInit(c)
  \/ BackendFragment(c)
  \/ BackendEnd(c)
  \/ BackendError(c)
  \/ Poll(c)
  \/ Emit(c)
  \/ Search(c)
  \/ FinalizeRead(c)
  \/ FinalizeWrite(c)
  \/ EndRead(c)
  \/ EmitEnd(c)

NextLive ==
  \/ \E c \in Sessions : LiveStep(c)
  \/ \E k \in Sessions : Halt(k)

\* the event loop is fair to the coroutine, every backend call returns (with a
\* fragment, the end of the stream or an error) and every cache call returns
SpecLive ==
  /\ InitLive
  /\ [][NextLive]_vars
  /\ \A c \in Sessions : WF_vars(LiveStep(c))

\* pcs at which a generation is streaming: between the ACTIVE write and the
\* finally block
StreamingPcs == {"emit_init", "y_init", "rw_poll", "emit_rw", "y_rw", "search",
                 "y_search", "poll", "emit_ans", "y_ans"}

\* C24: if a halt lands while a generation is streaming, then, the backend
\* going on to deliver a fragment or to end its stream in each remaining
\* stage, the cache answering and the consumer consuming, the generation
\* eventually returns: it has yielded End as its last event and yields no
\* Answer or Query Rewrite any more.
C24_HaltedStreamEnds ==
  \A c \in Sessions :
    (pc[c] \in StreamingPcs /\ nHalts[c] > 0) ~>
      [](/\ pc[c] = "done"
         /\ out[c][Len(out[c])][1] = "End"
         /\ Holds(store, c, TERMINATED) \/ Holds(store, c, COMPLETED))

\* a halt landed in the rewrite stage and the generation returned
C24_Witness ==
  /\ variant["s1"] = "rag" /\ hmark["s1"].pc \in {"y_rw", "rw_poll"}
  /\ pc["s1"] = "done"
  /\ out["s1"][Len(out["s1"])] = EndEv(TERMINATED)
  /\ Cardinality(Where(out["s1"], "Search")) = 1

\* ------------------------------------------------------- the ACTIVE write
\* C25: generate writes ACTIVE only before it yields Init: once the Init of a
\* generation is in its stream, no step makes the stored status ACTIVE, so a
\* halt issued by a client that has received Init is never overwritten by
\* the begin write; the one step that ever makes it ACTIVE is the begin.
C25_ActiveOnlyBeforeInit ==
  [][\A c \in Sessions :
       /\ (out[c] # <<>> /\ ~Holds(store, c, ACTIVE)) => ~Holds(store', c, ACTIVE)
       /\ (~Holds(store, c, ACTIVE) /\ Holds(store', c, ACTIVE)) =>
            (Begin(c) /\ out[c] = <<>>)]_vars

\* a halt landed right after Init was yielded; the generation went on to its
\* End without a step that made the status ACTIVE again
C25_Witness ==
  /\ hmark["s1"] = [pc |-> "y_init", n |-> 1]
  /\ pc["s1"] = "done" /\ variant["s1"] = "plain"
  /\ ~finWrote["s1"]
  /\ Len(ansS["s1"]) > 0 /\ Where(out["s1"], "Answer") = {}
  /\ Holds(store, "s1", TERMINATED)
  /\ out["s1"] = <<InitEv("s1"), EndEv(TERMINATED)>>

\* ------------------------------------------------------ End 0 and truncation
\* C26: with one generation per id and no deletion of its key, an End with
\* end_reason 0 means the stream was not truncated: under every interleaving
\* of halts, every fragment the backend delivered in every stage was forwarded
\* as an Answer or Query Rewrite event, in order, no backend call raised, and
\* the retrieval-augmented workflow went through its retrieval.
C26_EndZeroMeansComplete ==
  \A c \in Sessions :
    (Where(out[c], "End") # {} /\ out[c][Len(out[c])] = EndEv(COMPLETED)) =>
      /\ AllForwarded(c)
      /\ berr[c] = "none"
      /\ finWrote[c]
      /\ variant[c] = "rag" => Cardinality(Where(out[c], "Search")) = 1

\* a retrieval-augmented generation with full streams in both stages ended
\* with End(0) while halts landed on it (inside the finalizer and after the
\* read for the End payload)
C26_Witness ==
  /\ variant["s1"] = "rag" /\ pc["s1"] = "done"
  /\ nHalts["s1"] = MaxHalts /\ hmark["s1"] = NoMark
  /\ Len(rwS["s1"]) = MaxRewrite /\ Len(ansS["s1"]) = MaxFrags
  /\ AllForwarded("s1")
  /\ out["s1"][Len(out["s1"])] = EndEv(COMPLETED)

\* ------------------------------------------------------------------ eviction
\* the entry of a begun session leaves the cache without a halt: a delete by
\* another client of the cache, an expiry, or close() of the LocalCache
Evict(c) ==
  /\ Begun(c)
  /\ storeUp
  /\ c \in DOMAIN store
  /\ store' = CacheDel(store, c)
  /\ UNCHANGED <<storeUp, pc, variant, out, rwS, ansS, status, exiting, berr,
                 finRuns, haltRes, nHalts, hmark>>
  /\ UNCHANGED aux

NextEvict ==
  \/ \E c \in Sessions : LiveStep(c)
  \/ \E c \in Sessions : Evict(c)
  \/ \E k \in Sessions : Halt(k)

\* one generation for s1 over a cache whose entries may be deleted
SpecEvict == InitLive /\ [][NextEvict]_vars

\* C27: the workflow stops on any status other than ACTIVE, not only on
\* TERMINATED: when the entry of the session is deleted after the begin and
\* before a poll, with no halt, the poll (which reads None) forwards nothing
\* and leaves its loop, no fragment is forwarded afterwards (at most the one
\* polled fragment of each remaining stage is delivered and dropped), the
\* finalizer writes COMPLETED, and the generation that returns has End with
\* end_reason 0 as its last event although fragments were dropped.
C27_EvictionStopsWithEndZero ==
  /\ [][\A c \in Sessions :
         (Poll(c) /\ c \notin DOMAIN store) =>
           /\ out'[c] = out[c]
           /\ status'[c] = None
           /\ pc'[c] = (IF pc[c] = "rw_poll" THEN "search" ELSE "fin_read")]_vars
  /\ [](\A c \in Sessions :
         (nHalts[c] = 0 /\ berr[c] = "none" /\ ~AllForwarded(c)
            /\ pc[c] \notin {"rw_poll", "emit_rw", "poll", "emit_ans"}) =>
           /\ Len(rwS[c]) - Cardinality(Where(out[c], "Query Rewrite")) \in {0, 1}
           /\ Len(ansS[c]) - Cardinality(Where(out[c], "Answer")) \in {0, 1}
           /\ RewriteStopped(c) => Where(out[c], "Answer") = {}
           /\ pc[c] \in {"end_read", "emit_end", "done"} => finWrote[c]
           /\ pc[c] = "done" => out[c][Len(out[c])] = EndEv(COMPLETED))

\* the entry was deleted while the second answer fragment was on its way; the
\* fragment was dropped, nobody halted, and the stream ended with End(0)
C27_Witness ==
  /\ variant["s1"] = "plain" /\ pc["s1"] = "done"
  /\ nHalts["s1"] = 0 /\ berr["s1"] = "none"
  /\ Len(ansS["s1"]) = 2 /\ Cardinality(Where(out["s1"], "Answer")) = 1
  /\ finWrote["s1"]
  /\ out["s1"][Len(out["s1"])] = EndEv(COMPLETED)

\* the same in the retrieval-augmented workflow, the entry deleted during the
\* query rewrite: Search is still yielded, no Answer is
C27_WitnessRewrite ==
  /\ variant["s1"] = "rag" /\ pc["s1"] = "done"
  /\ nHalts["s1"] = 0 /\ berr["s1"] = "none"
  /\ RewriteStopped("s1") /\ Len(ansS["s1"]) = 1
  /\ Where(out["s1"], "Answer") = {}
  /\ Where(out["s1"], "Search") # {}
  /\ out["s1"][Len(out["s1"])] = EndEv(COMPLETED)
====
